---- MODULE Spec2Model ----
(***************************************************************************)
(* Staged move ordering of frozenight (src/search/ordering.rs).            *)
(*                                                                         *)
(* A MoveOrdering is built from a board, an optional hash move and a       *)
(* killer move, and is then pulled (Iterator::next) until it returns None. *)
(* The board and cozy_chess's move generator are inputs: a position is     *)
(* the list of PieceMoves groups that generate_moves reports, the squares  *)
(* held by the opponent and the pieces standing on them.                   *)
(***************************************************************************)
EXTENDS Integers, Sequences, FiniteSets, TLC

VARIABLES
    board,            \* the borrowed position: [groups, theirs, piece_on]
    stage,            \* MoveOrderingStage
    hashmove,         \* Option<Move>
    killer,           \* Move, after the normalisation of new()
    captures,         \* Vec<(Move, i8)>
    quiets,           \* Vec<PieceMovesIter>
    underpromotions,  \* Vec<Move>
    killer_hint,      \* the killer argument handed to new()
    out,              \* the moves the pulls have returned so far, in order
    src,              \* for each returned move, the handler that returned it
    scores,           \* the scores of the entries captures() has returned
    nones,            \* number of pulls that returned None
    gens              \* number of calls of Board::generate_moves

vars == <<board, stage, hashmove, killer, captures, quiets, underpromotions,
          killer_hint, out, src, scores, nones, gens>>

----------------------------------------------------------------------------
(* Bounds of the model. *)

\* at most this many pieces of the position have a legal move
MaxGroups == 2

\* pulls made after the stream has ended
MaxNones == 2

----------------------------------------------------------------------------
(* cozy_chess values. *)

\* Option<Piece>::None, the promotion field of a move that does not promote
None == "None"

\* Option<Move>: NoMove is None, Some(mv) holds mv
NoMove == <<>>

Some(mv) == <<mv>>

\* Piece, in the order of the enum (`piece as usize` is the index - 1)
Pieces == <<"Pawn", "Knight", "Bishop", "Rook", "Queen", "King">>

PieceIndex(p) == CHOOSE i \in 1..Len(Pieces) : Pieces[i] = p

PIECE_ORDINALS == <<0, 1, 1, 2, 3, 4>>

\* squares are numbered rank by rank, A1 first
NumFiles == 8

A1 == 0

Sq(file, rank) == (rank - 1) * NumFiles + (file - 1)

Rank(sq) == (sq \div NumFiles) + 1

Squares == 0..(NumFiles * NumFiles - 1)

MakeMove(f, t, p) == [from |-> f, to |-> t, promotion |-> p]

\* the promotions of a pawn reaching the last rank, in the order
\* PieceMovesIter yields them
Promotions == <<"Knight", "Bishop", "Rook", "Queen">>

PromotionSet == {Promotions[i] : i \in 1..Len(Promotions)}

IsPromotion(piece, to) == piece = "Pawn" /\ Rank(to) \in {1, NumFiles}

\* BitBoard::next_square: the lowest square of the set
NextSquare(bb) == CHOOSE s \in bb : \A t \in bb : s <= t

\* PieceMoves::into_iter
IntoIter(mvs) ==
    [piece |-> mvs.piece, from |-> mvs.from, to |-> mvs.to, promotion |-> 0]

\* PieceMovesIter::next, the move it returns (the iterator is not empty)
IterMove(it) ==
    LET to == NextSquare(it.to)
    IN  MakeMove(it.from, to,
                 IF IsPromotion(it.piece, to)
                 THEN Promotions[it.promotion + 1] ELSE None)

\* PieceMovesIter::next, the iterator it leaves
IterRest(it) ==
    LET to == NextSquare(it.to)
    IN  IF IsPromotion(it.piece, to) /\ it.promotion + 1 < Len(Promotions)
        THEN [it EXCEPT !.promotion = @ + 1]
        ELSE [it EXCEPT !.promotion = 0, !.to = @ \ {to}]

\* every move a PieceMoves group stands for, in iteration order
RECURSIVE IterAll(_)
IterAll(it) ==
    IF it.to = {} THEN <<>> ELSE <<IterMove(it)>> \o IterAll(IterRest(it))

----------------------------------------------------------------------------
(* MoveOrdering. *)

Stages == {"Hashmove", "PrepareCaptures", "Captures", "Quiets", "Underpromotions"}

\* the promotion test as it would be if it let every promotion through
IsAnyPromotionOrNone(p) == TRUE

\* matches!(mv.promotion, None | Some(Piece::Queen)) (lines 77, 126)
IsQueenOrNone(p) == p \in {None, "Queen"}

\* new() as it would be if it always started in PrepareCaptures
NewSkipsHashmove(b, hm, k) ==
    [stage |-> "PrepareCaptures",
     hashmove |-> hm,
     killer |-> IF Some(k) # hm THEN k ELSE MakeMove(A1, A1, None),
     captures |-> <<>>,
     quiets |-> <<>>,
     underpromotions |-> <<>>]

\* new() as it would be if it kept a killer equal to the hash move
NewKeepsKiller(b, hm, k) ==
    [stage |-> IF hm # NoMove THEN "Hashmove" ELSE "PrepareCaptures",
     hashmove |-> hm,
     killer |-> k,
     captures |-> <<>>,
     quiets |-> <<>>,
     underpromotions |-> <<>>]

\* MoveOrdering::new: the fields of the new value
New(b, hm, k) ==
    [stage |-> IF hm # NoMove THEN "Hashmove" ELSE "PrepareCaptures",
     hashmove |-> hm,
     killer |-> IF Some(k) # hm THEN k ELSE MakeMove(A1, A1, None),
     captures |-> <<>>,
     quiets |-> <<>>,
     underpromotions |-> <<>>]

\* the hash-move test as it would be if it never matched
SkipsNothing(hm, mv) == FALSE

\* `Some(mv) == self.hashmove`: the move is passed over (lines 72, 122)
SkipsHashmove(hm, mv) == Some(mv) = hm

\* the loop over the capturing destinations of one group (lines 71-82):
\* s holds the capture list and the underpromotion list built so far
RECURSIVE ScoreCaptures(_, _, _, _)
ScoreCaptures(b, hm, it, s) ==
    IF it.to = {} THEN s
    ELSE LET mv == IterMove(it)
             attacker == PIECE_ORDINALS[PieceIndex(it.piece)]
             victim == PIECE_ORDINALS[PieceIndex(b.piece_on[mv.to])] * 4
             s2 == IF SkipsHashmove(hm, mv) THEN s
                   ELSE IF IsQueenOrNone(mv.promotion)
                   THEN [s EXCEPT !.captures = Append(@, <<mv, victim - attacker>>)]
                   ELSE [s EXCEPT !.underpromotions = Append(@, mv)]
         IN  ScoreCaptures(b, hm, IterRest(it), s2)

\* the listener as it would be if it left the killer's destination in the
\* group whatever the killer's promotion field is
ListenerKeepsKillerDest(b, s, mvs0) ==
    LET hit == s.killer.from = mvs0.from /\ s.killer.to \in mvs0.to
        s1 == IF hit THEN [s EXCEPT !.captures = Append(@, <<s.killer, 0>>)] ELSE s
        qs == [mvs0 EXCEPT !.to = @ \ b.theirs]
        s2 == [s1 EXCEPT !.quiets = Append(@, IntoIter(qs))]
        cs == [mvs0 EXCEPT !.to = @ \cap b.theirs]
    IN  ScoreCaptures(b, s.hashmove, IntoIter(cs), s2)

\* the listener as it would be if it did not look at the killer
ListenerIgnoresKiller(b, s, mvs0) ==
    LET qs == [mvs0 EXCEPT !.to = @ \ b.theirs]
        s2 == [s EXCEPT !.quiets = Append(@, IntoIter(qs))]
        cs == [mvs0 EXCEPT !.to = @ \cap b.theirs]
    IN  ScoreCaptures(b, s.hashmove, IntoIter(cs), s2)

\* the listener as it would be if it put each quiet group in front
ListenerPrependsQuiets(b, s, mvs0) ==
    LET hit == s.killer.from = mvs0.from /\ s.killer.to \in mvs0.to
        s1 == IF hit THEN [s EXCEPT !.captures = Append(@, <<s.killer, 0>>)] ELSE s
        mvs == IF hit /\ s.killer.promotion = None
               THEN [mvs0 EXCEPT !.to = @ \ {s.killer.to}] ELSE mvs0
        qs == [mvs EXCEPT !.to = @ \ b.theirs]
        s2 == [s1 EXCEPT !.quiets = <<IntoIter(qs)>> \o @]
        cs == [mvs EXCEPT !.to = @ \cap b.theirs]
    IN  ScoreCaptures(b, s.hashmove, IntoIter(cs), s2)

\* the listener prepare_captures hands to generate_moves, run on one group
Listener(b, s, mvs0) ==
    LET hit == s.killer.from = mvs0.from /\ s.killer.to \in mvs0.to
        s1 == IF hit THEN [s EXCEPT !.captures = Append(@, <<s.killer, 0>>)] ELSE s
        mvs == IF hit /\ s.killer.promotion = None
               THEN [mvs0 EXCEPT !.to = @ \ {s.killer.to}] ELSE mvs0
        qs == [mvs EXCEPT !.to = @ \ b.theirs]
        s2 == [s1 EXCEPT !.quiets = Append(@, IntoIter(qs))]
        cs == [mvs EXCEPT !.to = @ \cap b.theirs]
    IN  ScoreCaptures(b, s.hashmove, IntoIter(cs), s2)

\* Board::generate_moves with that listener: one call per group, in order
RECURSIVE GenerateMoves(_, _, _)
GenerateMoves(b, s, i) ==
    IF i > Len(b.groups) THEN s
    ELSE GenerateMoves(b, Listener(b, s, b.groups[i]), i + 1)

\* underpromotions() as it would be if it took the oldest entry
UnderpromotionsFromFront(s) ==
    IF s.underpromotions = <<>>
    THEN [s |-> s, ret |-> NoMove, by |-> "underpromotions"]
    ELSE [s |-> [s EXCEPT !.underpromotions = SubSeq(@, 2, Len(@))],
          ret |-> Some(s.underpromotions[1]),
          by |-> "underpromotions"]

\* underpromotions() as it would be if an empty list restarted the stream
UnderpromotionsRestarts(s) ==
    IF s.underpromotions = <<>>
    THEN [s |-> [s EXCEPT !.stage = "PrepareCaptures"], ret |-> NoMove,
          by |-> "underpromotions"]
    ELSE [s |-> [s EXCEPT !.underpromotions = SubSeq(@, 1, Len(@) - 1)],
          ret |-> Some(s.underpromotions[Len(s.underpromotions)]),
          by |-> "underpromotions"]

\* MoveOrdering::underpromotions
Underpromotions(s) ==
    IF s.underpromotions = <<>>
    THEN [s |-> s, ret |-> NoMove, by |-> "underpromotions"]
    ELSE [s |-> [s EXCEPT !.underpromotions = SubSeq(@, 1, Len(@) - 1)],
          ret |-> Some(s.underpromotions[Len(s.underpromotions)]),
          by |-> "underpromotions"]

\* MoveOrdering::quiets
RECURSIVE Quiets(_)
Quiets(s) ==
    IF s.quiets = <<>>
    THEN Underpromotions([s EXCEPT !.stage = "Underpromotions"])
    ELSE LET n == Len(s.quiets)
             it == s.quiets[n]
         IN  IF it.to = {}
             THEN Quiets([s EXCEPT !.quiets = SubSeq(@, 1, n - 1)])
             ELSE LET mv == IterMove(it)
                      s1 == [s EXCEPT !.quiets[n] = IterRest(it)]
                  IN  IF SkipsHashmove(s.hashmove, mv) THEN Quiets(s1)
                      ELSE IF IsQueenOrNone(mv.promotion)
                      THEN [s |-> s1, ret |-> Some(mv), by |-> "quiets"]
                      ELSE Quiets([s1 EXCEPT !.underpromotions = Append(@, mv)])

\* the scan as it would be if it kept the lowest score
RECURSIVE BestIndexLowest(_, _, _)
BestIndexLowest(caps, i, index) ==
    IF i > Len(caps) THEN index
    ELSE BestIndexLowest(caps, i + 1,
                         IF caps[i][2] < caps[index][2] THEN i ELSE index)

\* the scan as it would be with `>=`, keeping the last of the best entries
RECURSIVE BestIndexLastTie(_, _, _)
BestIndexLastTie(caps, i, index) ==
    IF i > Len(caps) THEN index
    ELSE BestIndexLastTie(caps, i + 1,
                          IF caps[i][2] >= caps[index][2] THEN i ELSE index)

\* the scan of lines 94-99: the index kept after looking at captures[i..]
RECURSIVE BestIndex(_, _, _)
BestIndex(caps, i, index) ==
    IF i > Len(caps) THEN index
    ELSE BestIndex(caps, i + 1, IF caps[i][2] > caps[index][2] THEN i ELSE index)

\* swap_remove as it would be if it dropped the last element instead
SwapRemoveTruncates(v, index) ==
    [i \in 1..(Len(v) - 1) |-> v[i]]

\* Vec::swap_remove: the last element takes the place of the removed one
SwapRemove(v, index) ==
    LET n == Len(v)
    IN  [i \in 1..(n - 1) |-> IF i = index THEN v[n] ELSE v[i]]

\* captures() as it would be if it returned None when its list is empty
CapturesNoFallThrough(s) ==
    IF s.captures = <<>>
    THEN [s |-> [s EXCEPT !.stage = "Quiets"], ret |-> NoMove, by |-> "quiets"]
    ELSE LET index == BestIndex(s.captures, 2, 1)
         IN  [s |-> [s EXCEPT !.captures = SwapRemove(@, index)],
              ret |-> Some(s.captures[index][1]),
              by |-> "captures",
              score |-> s.captures[index][2]]

\* MoveOrdering::captures
Captures(s) ==
    IF s.captures = <<>>
    THEN Quiets([s EXCEPT !.stage = "Quiets"])
    ELSE LET index == BestIndex(s.captures, 2, 1)
         IN  [s |-> [s EXCEPT !.captures = SwapRemove(@, index)],
              ret |-> Some(s.captures[index][1]),
              by |-> "captures",
              score |-> s.captures[index][2]]

\* prepare_captures() as it would be if it did not set the stage
PrepareCapturesStays(b, s) ==
    Captures(GenerateMoves(b, s, 1))

\* MoveOrdering::prepare_captures
PrepareCaptures(b, s) ==
    Captures(GenerateMoves(b, [s EXCEPT !.stage = "Captures"], 1))

\* hashmove() as it would be if it left the stage alone
HashmoveStays(s) ==
    [s |-> s, ret |-> s.hashmove, by |-> "hashmove"]

\* MoveOrdering::hashmove
Hashmove(s) ==
    [s |-> [s EXCEPT !.stage = "PrepareCaptures"], ret |-> s.hashmove, by |-> "hashmove"]

----------------------------------------------------------------------------
(* The positions and hints the model runs on.                              *)
(* White to move: pawn b7, king a1, knight d4; Black: pawn a2, knight b2,  *)
(* knight b5, bishop f5, queen a8.  A position takes, for each white       *)
(* piece, any subset of the squares it reaches as its legal destinations.  *)

OwnPieces ==
    << [piece |-> "Pawn", from |-> Sq(2, 7), reach |-> {Sq(1, 8), Sq(2, 8)}],
       [piece |-> "King", from |-> A1, reach |-> {Sq(1, 2), Sq(2, 2)}],
       [piece |-> "Knight", from |-> Sq(4, 4),
        reach |-> {Sq(2, 5), Sq(6, 5), Sq(5, 6)}] >>

Theirs == {Sq(1, 2), Sq(2, 2), Sq(2, 5), Sq(6, 5), Sq(1, 8)}

\* piece_on, for the squares the opponent holds
PieceOn ==
    [sq \in Theirs |->
        CASE sq = Sq(1, 2) -> "Pawn"
          [] sq = Sq(2, 2) -> "Knight"
          [] sq = Sq(2, 5) -> "Knight"
          [] sq = Sq(6, 5) -> "Bishop"
          [] sq = Sq(1, 8) -> "Queen"]

\* the groups generate_moves reports when piece i has the legal destinations
\* dests[i]: one group per piece that can move, pieces in generator order
RECURSIVE GroupsOf(_, _)
GroupsOf(dests, i) ==
    IF i > Len(OwnPieces) THEN <<>>
    ELSE (IF dests[i] = {} THEN <<>>
          ELSE << [piece |-> OwnPieces[i].piece, from |-> OwnPieces[i].from,
                   to |-> dests[i]] >>)
         \o GroupsOf(dests, i + 1)

\* every choice of legal destinations, one set per white piece from i on
RECURSIVE DestChoices(_)
DestChoices(i) ==
    IF i > Len(OwnPieces) THEN {<<>>}
    ELSE { <<d>> \o rest : d \in SUBSET OwnPieces[i].reach, rest \in DestChoices(i + 1) }

Boards ==
    { [groups |-> GroupsOf(d, 1), theirs |-> Theirs, piece_on |-> PieceOn] :
        d \in { e \in DestChoices(1) :
                  Cardinality({i \in 1..Len(OwnPieces) : e[i] # {}}) <= MaxGroups } }

\* hints: every move of a white piece to a square it reaches, with every
\* promotion field, and two moves that no position generates
HintMoves ==
    UNION { { MakeMove(OwnPieces[i].from, t, p) :
                t \in OwnPieces[i].reach, p \in {None} \cup PromotionSet } :
            i \in 1..Len(OwnPieces) }
    \cup {MakeMove(A1, A1, None), MakeMove(Sq(8, 1), Sq(8, 2), None)}

----------------------------------------------------------------------------
(* The state machine: construction, then one action per arm of next().     *)

Self ==
    [stage |-> stage, hashmove |-> hashmove, killer |-> killer,
     captures |-> captures, quiets |-> quiets, underpromotions |-> underpromotions]

Init ==
    \E b \in Boards, hm \in {NoMove} \cup {Some(m) : m \in HintMoves},
       k \in HintMoves :
        LET s == New(b, hm, k)
        IN  /\ board = b
            /\ stage = s.stage
            /\ hashmove = s.hashmove
            /\ killer = s.killer
            /\ captures = s.captures
            /\ quiets = s.quiets
            /\ underpromotions = s.underpromotions
            /\ killer_hint = k
            /\ out = <<>>
            /\ src = <<>>
            /\ scores = <<>>
            /\ nones = 0
            /\ gens = 0

\* the effect of one pull whose handler chain ended with r
Pull(r) ==
    /\ nones < MaxNones
    /\ stage' = r.s.stage
    /\ hashmove' = r.s.hashmove
    /\ killer' = r.s.killer
    /\ captures' = r.s.captures
    /\ quiets' = r.s.quiets
    /\ underpromotions' = r.s.underpromotions
    /\ out' = IF r.ret = NoMove THEN out ELSE Append(out, r.ret[1])
    /\ src' = IF r.ret = NoMove THEN src ELSE Append(src, r.by)
    /\ scores' = IF r.by = "captures" THEN Append(scores, r.score) ELSE scores
    /\ nones' = IF r.ret = NoMove THEN nones + 1 ELSE nones
    /\ UNCHANGED <<board, killer_hint>>

NextHashmove ==
    /\ stage = "Hashmove"
    /\ Pull(Hashmove(Self))
    /\ gens' = gens

NextPrepareCaptures ==
    /\ stage = "PrepareCaptures"
    /\ Pull(PrepareCaptures(board, Self))
    /\ gens' = gens + 1

NextCaptures ==
    /\ stage = "Captures"
    /\ Pull(Captures(Self))
    /\ gens' = gens

NextQuiets ==
    /\ stage = "Quiets"
    /\ Pull(Quiets(Self))
    /\ gens' = gens

NextUnderpromotions ==
    /\ stage = "Underpromotions"
    /\ Pull(Underpromotions(Self))
    /\ gens' = gens

Next ==
    \/ NextHashmove
    \/ NextPrepareCaptures
    \/ NextCaptures
    \/ NextQuiets
    \/ NextUnderpromotions

Spec == Init /\ [][Next]_vars

----------------------------------------------------------------------------
(* Vocabulary of the properties. *)

Range(seq) == {seq[i] : i \in DOMAIN seq}

Count(seq, m) == Cardinality({i \in DOMAIN seq : seq[i] = m})

\* the move is a legal move of the position: a group holds its origin and
\* destination, and it promotes exactly when a pawn reaches the last rank
IsLegal(b, mv) ==
    \E i \in DOMAIN b.groups :
        /\ b.groups[i].from = mv.from
        /\ mv.to \in b.groups[i].to
        /\ IF IsPromotion(b.groups[i].piece, mv.to)
           THEN mv.promotion \in PromotionSet
           ELSE mv.promotion = None

\* the legal moves of a position
LegalMoves(b) ==
    UNION { { mv \in { MakeMove(b.groups[i].from, t, p) :
                         t \in b.groups[i].to, p \in {None} \cup PromotionSet } :
                IsLegal(b, mv) } :
            i \in DOMAIN b.groups }

\* the move's origin and destination are an origin and destination of a group
MatchesGroup(b, k) ==
    \E i \in DOMAIN b.groups :
        b.groups[i].from = k.from /\ k.to \in b.groups[i].to

\* victim ordinal * 4 - attacker ordinal of a legal capture (lines 75-78)
ScoreOf(b, mv) ==
    LET g == CHOOSE i \in DOMAIN b.groups : b.groups[i].from = mv.from
    IN  PIECE_ORDINALS[PieceIndex(b.piece_on[mv.to])] * 4
          - PIECE_ORDINALS[PieceIndex(b.groups[g].piece)]

\* the moves held by the pools: capture list, quiet groups, underpromotions
Pooled ==
    {captures[i][1] : i \in DOMAIN captures}
    \cup UNION {Range(IterAll(quiets[i])) : i \in DOMAIN quiets}
    \cup Range(underpromotions)

\* a pull has returned None: the stream has been drained
Drained == nones > 0

\* at least one pull has been made
Pulled == out # <<>> \/ nones > 0

----------------------------------------------------------------------------
(* C1: with no hash move and a killer that matches no generated group, the *)
(* drained stream is exactly the set of legal moves, each yielded once.    *)
C1_Exact ==
    (Drained /\ hashmove = NoMove /\ ~MatchesGroup(board, killer_hint))
        => /\ Range(out) = LegalMoves(board)
           /\ Len(out) = Cardinality(LegalMoves(board))

\* a drained stream without hints that held a capture, a quiet move and
\* an underpromotion
C1_Witness ==
    /\ hashmove = NoMove
    /\ ~MatchesGroup(board, killer_hint)
    /\ Drained
    /\ {"captures", "quiets", "underpromotions"} \subseteq Range(src)
    /\ Len(board.groups) = MaxGroups

(* C2: when a hash move is supplied, the first pull returns exactly that   *)
(* move, legal or not.                                                     *)
C2_HashFirst ==
    (hashmove # NoMove /\ Pulled)
        => /\ out # <<>>
           /\ out[1] = hashmove[1]
           /\ src[1] = "hashmove"

\* the first pull has returned a hash move that is not legal in the position
C2_Witness ==
    /\ hashmove # NoMove
    /\ ~IsLegal(board, hashmove[1])
    /\ board.groups # <<>>
    /\ Len(out) = 1
    /\ out[1] = hashmove[1]

(* C3, as claimed: on a position without legal moves the stream is empty   *)
(* whatever the hints are.                                                 *)
C3_EmptyForAllHints ==
    (board.groups = <<>> /\ Pulled) => out = <<>>

(* C3, amended: on a position without legal moves the first pull returns   *)
(* None when no hash move is supplied, for every killer; when a hash move  *)
(* is supplied the stream is that hash move alone.                         *)
C3_EmptyWithoutHashmove ==
    board.groups = <<>>
        => /\ (hashmove = NoMove /\ Pulled) => (out = <<>> /\ Drained)
           /\ (hashmove # NoMove /\ Pulled) => out = <<hashmove[1]>>
           /\ (hashmove # NoMove /\ Len(out) = 1 /\ stage # "PrepareCaptures")
                  => Drained

\* no legal move, no hash move, a killer taken from a real move: pulled
C3_Witness ==
    /\ board.groups = <<>>
    /\ hashmove = NoMove
    /\ killer_hint.from # killer_hint.to
    /\ Drained
    /\ out = <<>>

(* C4, as claimed: whatever the hints are, every legal move of the         *)
(* position is in the drained stream.                                      *)
C4_NoLegalMoveDropped ==
    Drained => LegalMoves(board) \subseteq Range(out)

(* C5, as claimed: a killer that is not a legal move (and is not the hash  *)
(* move) is never yielded and never enters a pool.                         *)
C5_IllegalKillerDropped ==
    (Some(killer_hint) # hashmove /\ ~IsLegal(board, killer_hint))
        => /\ killer_hint \notin Range(out)
           /\ killer_hint \notin Pooled

(* C6: a supplied hash move is yielded by the first pull only: no later    *)
(* pull returns it, so the drained stream holds it exactly once.           *)
C6_HashmoveOnce ==
    hashmove # NoMove
        => /\ \A i \in DOMAIN out : i >= 2 => out[i] # hashmove[1]
           /\ Drained => Count(out, hashmove[1]) = 1

\* a drained stream whose hash move is a legal capture, with a killer that
\* matched a group
C6_Witness ==
    /\ hashmove # NoMove
    /\ IsLegal(board, hashmove[1])
    /\ hashmove[1].to \in board.theirs
    /\ MatchesGroup(board, killer)
    /\ Drained
    /\ Len(out) >= 4

(* C7: when the killer hint equals the hash move, the killer field is the  *)
(* A1->A1 move, which matches no group, and the drained stream holds the   *)
(* move exactly once.                                                      *)
C7_KillerEqualsHashmove ==
    hashmove = Some(killer_hint)
        => /\ killer = MakeMove(A1, A1, None)
           /\ ~MatchesGroup(board, killer)
           /\ Count(out, killer_hint) <= 1
           /\ Drained => Count(out, killer_hint) = 1

\* drained, the killer hint being the hash move and a legal promotion
C7_Witness ==
    /\ hashmove = Some(killer_hint)
    /\ IsLegal(board, killer_hint)
    /\ killer_hint.promotion # None
    /\ Drained

(* C8: a move that is yielded twice is the killer and carries a promotion  *)
(* field; so with a killer without promotion field no move is yielded      *)
(* twice, and at most one move value is ever repeated.                     *)
C8_OnlyPromotingKillerRepeats ==
    \A i, j \in DOMAIN out :
        (i < j /\ out[i] = out[j])
            => (out[i] = killer_hint /\ killer_hint.promotion # None)

\* a drained stream that held the promoting killer twice
C8_Witness ==
    /\ Drained
    /\ killer_hint.promotion # None
    /\ Count(out, killer_hint) = 2

(* C9: a killer that is a legal move without promotion and is not the hash *)
(* move is yielded by captures(), before any move yielded by quiets(),     *)
(* whether or not it captures.                                             *)
C9_KillerBeforeQuiets ==
    (/\ killer_hint.promotion = None
     /\ Some(killer_hint) # hashmove
     /\ IsLegal(board, killer_hint))
        => /\ \A i \in DOMAIN out : out[i] = killer_hint => src[i] = "captures"
           /\ \A j \in DOMAIN out :
                  src[j] = "quiets" => \E i \in 1..(j - 1) : out[i] = killer_hint
           /\ Drained => killer_hint \in Range(out)

\* a quiet killer was yielded and a move came out of the quiet groups
C9_Witness ==
    /\ IsLegal(board, killer_hint)
    /\ killer_hint.promotion = None
    /\ Some(killer_hint) # hashmove
    /\ killer_hint.to \notin board.theirs
    /\ killer_hint \in Range(out)
    /\ "quiets" \in Range(src)

\* the hash move is a legal quiet move, the killer a legal capture
C10_Pre ==
    /\ hashmove # NoMove
    /\ hashmove[1].to \notin board.theirs
    /\ killer_hint.to \in board.theirs
    /\ killer_hint # hashmove[1]
    /\ IsLegal(board, hashmove[1])
    /\ IsLegal(board, killer_hint)

\* the other captures that enter the capture list
OtherCaptures ==
    {m \in LegalMoves(board) :
        /\ m.to \in board.theirs
        /\ IsQueenOrNone(m.promotion)
        /\ m # killer_hint
        /\ Some(m) # hashmove}

(* C10, as claimed: with a legal quiet hash move and a legal capturing     *)
(* killer, the hash move is first and the killer second.                   *)
C10_KillerSecond ==
    (C10_Pre /\ Len(out) >= 2)
        => (out[1] = hashmove[1] /\ out[2] = killer_hint)

(* C10, amended: the hash move is first and the killer is yielded from the *)
(* capture list at score 0: after every other capture scoring above 0,     *)
(* before every other capture scoring below 0 and before every quiet move  *)
(* and underpromotion; it is second when no other capture scores 0 or more.*)
C10_KillerAtScoreZero ==
    C10_Pre
        => /\ out # <<>> => out[1] = hashmove[1]
           /\ \A j \in DOMAIN out :
                  (\/ src[j] \in {"quiets", "underpromotions"}
                   \/ /\ src[j] = "captures"
                      /\ out[j] \in OtherCaptures
                      /\ ScoreOf(board, out[j]) < 0)
                      => \E i \in 1..(j - 1) :
                            out[i] = killer_hint /\ src[i] = "captures"
           /\ Drained =>
                  \A j \in DOMAIN out :
                      (/\ src[j] = "captures"
                       /\ out[j] \in OtherCaptures
                       /\ ScoreOf(board, out[j]) > 0)
                          => \E i \in (j + 1)..Len(out) :
                                out[i] = killer_hint /\ src[i] = "captures"
           /\ (/\ Len(out) >= 2
               /\ \A m \in OtherCaptures : ScoreOf(board, m) < 0)
                  => out[2] = killer_hint

\* a drained stream in which a higher capture came between the hash move
\* and the killer, and a lower capture after the killer
C10_Witness ==
    /\ C10_Pre
    /\ Drained
    /\ out[2] # killer_hint
    /\ \E j \in DOMAIN out :
          /\ src[j] = "captures"
          /\ out[j] \in OtherCaptures
          /\ ScoreOf(board, out[j]) < 0

----------------------------------------------------------------------------
\* the moves captures() has returned so far, in order: they follow the hash
\* move, if there is one, without a gap
CaptureOut ==
    [j \in 1..Len(scores) |-> out[j + (IF hashmove # NoMove THEN 1 ELSE 0)]]

(* C11: the scores of the moves captures() returns never increase from one *)
(* pull to the next; each returned entry scores at least as much as every  *)
(* entry still in the capture list; and its score is 0 for the killer's    *)
(* entry, victim ordinal * 4 - attacker ordinal for a capture.             *)
C11_ScoresNonIncreasing ==
    /\ \A i, j \in DOMAIN scores : i < j => scores[i] >= scores[j]
    /\ \A k \in DOMAIN captures :
          scores # <<>> => captures[k][2] <= scores[Len(scores)]
    /\ \A j \in DOMAIN scores :
          /\ src[j + (IF hashmove # NoMove THEN 1 ELSE 0)] = "captures"
          /\ \/ CaptureOut[j] = killer /\ scores[j] = 0
             \/ /\ CaptureOut[j].to \in board.theirs
                /\ IsLegal(board, CaptureOut[j])
                /\ scores[j] = ScoreOf(board, CaptureOut[j])

\* a drained stream whose captures went from a positive score through the
\* killer's 0 to a negative score
C11_Witness ==
    /\ Drained
    /\ Len(scores) >= 3
    /\ scores[1] > 0
    /\ \E j \in DOMAIN scores : scores[j] = 0 /\ CaptureOut[j] = killer
    /\ scores[Len(scores)] < 0

----------------------------------------------------------------------------
\* the move promotes to a piece that is not the queen
IsUnderpromotion(mv) == mv.promotion \in PromotionSet \ {"Queen"}

\* the plain captures, queen-promotion captures and quiet moves of a position
MajorMoves(b) == {m \in LegalMoves(b) : ~IsUnderpromotion(m)}

(* C12, as claimed: whatever the hints are, no legal move promoting to a   *)
(* non-queen piece is yielded while a plain capture, a queen-promotion     *)
(* capture or a quiet move of the position has not been yielded.           *)
C12_UnderpromotionsLast ==
    \A i \in DOMAIN out :
        (IsUnderpromotion(out[i]) /\ IsLegal(board, out[i]))
            => MajorMoves(board) \subseteq {out[j] : j \in 1..(i - 1)}

(* C12, amended: a move promoting to a non-queen piece is yielded only as  *)
(* the hash move, as the killer's entry of the capture list, or by         *)
(* underpromotions(); underpromotions() runs only when the capture list    *)
(* and the quiet groups are empty, and once it has returned a move no      *)
(* other handler returns one.                                              *)
C12_UnderpromotionsDeferred ==
    /\ \A i \in DOMAIN out :
          IsUnderpromotion(out[i])
              => \/ src[i] = "hashmove"
                 \/ src[i] = "captures" /\ out[i] = killer
                 \/ src[i] = "underpromotions"
    /\ \A i, j \in DOMAIN out :
          (i < j /\ src[i] = "underpromotions") => src[j] = "underpromotions"
    /\ (stage = "Underpromotions" \/ "underpromotions" \in Range(src))
          => (captures = <<>> /\ quiets = <<>>)

\* a drained stream with an underpromoting killer yielded by captures(),
\* then a move of the quiet groups, then a deferred underpromotion
C12_Witness ==
    /\ Drained
    /\ \E i, j, k \in DOMAIN out :
          /\ i < j /\ j < k
          /\ src[i] = "captures" /\ IsUnderpromotion(out[i])
          /\ src[j] = "quiets"
          /\ src[k] = "underpromotions"

----------------------------------------------------------------------------
(* A second family of positions, with several quiet moves per piece.       *)
(* White to move: pawn b7, king a1, knight d4; Black: knight b5.           *)

QuietPieces ==
    << [piece |-> "Pawn", from |-> Sq(2, 7), reach |-> {Sq(2, 8)}],
       [piece |-> "King", from |-> A1, reach |-> {Sq(2, 1), Sq(2, 2)}],
       [piece |-> "Knight", from |-> Sq(4, 4),
        reach |-> {Sq(3, 2), Sq(2, 5), Sq(5, 6)}] >>

QuietTheirs == {Sq(2, 5)}

QuietPieceOn == [sq \in QuietTheirs |-> "Knight"]

RECURSIVE QuietGroupsOf(_, _)
QuietGroupsOf(dests, i) ==
    IF i > Len(QuietPieces) THEN <<>>
    ELSE (IF dests[i] = {} THEN <<>>
          ELSE << [piece |-> QuietPieces[i].piece, from |-> QuietPieces[i].from,
                   to |-> dests[i]] >>)
         \o QuietGroupsOf(dests, i + 1)

RECURSIVE QuietDestChoices(_)
QuietDestChoices(i) ==
    IF i > Len(QuietPieces) THEN {<<>>}
    ELSE { <<d>> \o rest :
             d \in SUBSET QuietPieces[i].reach, rest \in QuietDestChoices(i + 1) }

QuietBoards ==
    { [groups |-> QuietGroupsOf(d, 1), theirs |-> QuietTheirs,
       piece_on |-> QuietPieceOn] :
        d \in { e \in QuietDestChoices(1) :
                  Cardinality({i \in 1..Len(QuietPieces) : e[i] # {}})
                      <= MaxGroups } }

QuietHintMoves ==
    UNION { { MakeMove(QuietPieces[i].from, t, p) :
                t \in QuietPieces[i].reach, p \in {None} \cup PromotionSet } :
            i \in 1..Len(QuietPieces) }
    \cup {MakeMove(A1, A1, None), MakeMove(Sq(8, 1), Sq(8, 2), None)}

InitQuiets ==
    \E b \in QuietBoards, hm \in {NoMove} \cup {Some(m) : m \in QuietHintMoves},
       k \in QuietHintMoves :
        LET s == New(b, hm, k)
        IN  /\ board = b
            /\ stage = s.stage
            /\ hashmove = s.hashmove
            /\ killer = s.killer
            /\ captures = s.captures
            /\ quiets = s.quiets
            /\ underpromotions = s.underpromotions
            /\ killer_hint = k
            /\ out = <<>>
            /\ src = <<>>
            /\ scores = <<>>
            /\ nones = 0
            /\ gens = 0

SpecQuiets == InitQuiets /\ [][Next]_vars

\* the index of the group generate_moves reported for the move's origin
GroupOf(b, mv) == CHOOSE i \in DOMAIN b.groups : b.groups[i].from = mv.from

\* generate_moves produced x before y: in an earlier group, or in the same
\* group at a lower square
GeneratedBefore(b, x, y) ==
    \/ GroupOf(b, x) < GroupOf(b, y)
    \/ GroupOf(b, x) = GroupOf(b, y) /\ x.to < y.to

(* C13, as claimed: the moves quiets() returns come in generator order.    *)
C13_GeneratorOrder ==
    \A i, j \in DOMAIN out :
        (i < j /\ src[i] = "quiets" /\ src[j] = "quiets")
            => GeneratedBefore(board, out[i], out[j])

(* C13, amended: the quiet groups are drained last group first, and the    *)
(* moves of one group come in generator order: of two moves returned by    *)
(* quiets(), the one of the later group comes first, and within a group    *)
(* the one generated first comes first.                                    *)
C13_LastGroupFirst ==
    \A i, j \in DOMAIN out :
        (i < j /\ src[i] = "quiets" /\ src[j] = "quiets")
            => \/ GroupOf(board, out[i]) > GroupOf(board, out[j])
               \/ /\ GroupOf(board, out[i]) = GroupOf(board, out[j])
                  /\ out[i].to < out[j].to

\* a drained stream in which quiets() returned two moves of one group and
\* then two moves of an earlier group
C13_Witness ==
    /\ Drained
    /\ \E i \in DOMAIN out :
          /\ i + 3 <= Len(out)
          /\ \A j \in i..(i + 3) : src[j] = "quiets"
          /\ GroupOf(board, out[i]) = GroupOf(board, out[i + 1])
          /\ GroupOf(board, out[i + 1]) > GroupOf(board, out[i + 2])
          /\ GroupOf(board, out[i + 2]) = GroupOf(board, out[i + 3])

----------------------------------------------------------------------------
\* the capture list as the generation pass leaves it, in the order appended
CaptureList ==
    GenerateMoves(board,
                  [New(board, hashmove, killer_hint) EXCEPT !.stage = "Captures"],
                  1).captures

\* the place in the generated capture list of the j-th move captures() returned
GenIndex(j) ==
    CHOOSE k \in DOMAIN CaptureList : CaptureList[k] = <<CaptureOut[j], scores[j]>>

(* C14, as claimed: of two capture candidates with the same score, the one *)
(* appended to the capture list earlier is yielded first.                  *)
C14_EarlierGeneratedFirst ==
    \A i, j \in DOMAIN scores :
        (i < j /\ scores[i] = scores[j]) => GenIndex(i) < GenIndex(j)

(* C14, amended: each pull from the capture list yields the entry at the   *)
(* lowest index, in the list as it stands at that pull, among the entries  *)
(* of maximal score, and the last entry of the list then takes the place   *)
(* of the yielded one; the list stands in generation order on the first    *)
(* such pull only.                                                         *)
C14_FirstInCurrentList ==
    [][ Len(scores') = Len(scores) + 1
          => LET list == IF stage = "PrepareCaptures" THEN CaptureList ELSE captures
                 n == Len(list)
                 mv == out'[Len(out')]
                 sc == scores'[Len(scores')]
             IN  \E k \in DOMAIN list :
                    /\ list[k] = <<mv, sc>>
                    /\ \A i \in DOMAIN list : list[i][2] <= sc
                    /\ \A i \in 1..(k - 1) : list[i][2] < sc
                    /\ Len(captures') = n - 1
                    /\ \A i \in DOMAIN captures' :
                          captures'[i] = IF i = k THEN list[n] ELSE list[i] ]_vars

\* a drained stream in which, after an earlier pull from the capture list,
\* the later generated of two captures with the same score came first
C14_Witness ==
    /\ Drained
    /\ \E i, j \in DOMAIN scores :
          /\ 1 < i /\ i < j
          /\ scores[i] = scores[j]
          /\ scores[i] # 0
          /\ GenIndex(i) > GenIndex(j)

----------------------------------------------------------------------------
\* the moves a state of the ordering still holds to yield: the capture list,
\* the destinations left in the quiet groups that are not skipped as the
\* hash move, and the underpromotion list
Held(s) ==
    {s.captures[i][1] : i \in DOMAIN s.captures}
    \cup {m \in UNION {Range(IterAll(s.quiets[i])) : i \in DOMAIN s.quiets} :
            ~SkipsHashmove(s.hashmove, m)}
    \cup Range(s.underpromotions)

\* the ordering holds a move not yet yielded: the hash move in stage
\* Hashmove, the moves about to be generated in stage PrepareCaptures, the
\* pools afterwards
HoldsMove ==
    \/ stage = "Hashmove"
    \/ Held(IF stage = "PrepareCaptures" THEN GenerateMoves(board, Self, 1)
            ELSE Self) # {}

(* C15: a pull returns None only when nothing is left: while the hash move *)
(* is pending or a pool holds a move that is not skipped, the pull returns *)
(* a move in that same call, whatever stage it starts in; and a pull that  *)
(* returns None leaves every pool empty.                                   *)
C15_NoneOnlyWhenExhausted ==
    [][ /\ HoldsMove => (Len(out') = Len(out) + 1 /\ nones' = nones)
        /\ nones' # nones
              => (captures' = <<>> /\ quiets' = <<>> /\ underpromotions' = <<>>)
      ]_vars

\* the pull after the hash move started in PrepareCaptures with an empty capture
\* list and a quiet group without a move to return, and still returned a
\* move, from the underpromotion list
C15_Witness ==
    /\ Drained
    /\ hashmove # NoMove
    /\ Len(out) >= 2
    /\ src[2] = "underpromotions"

----------------------------------------------------------------------------
(* C16: generation is lazy and happens once: until the pull made in stage  *)
(* PrepareCaptures, construction and the hash-move pull included, the      *)
(* three pools are empty and generate_moves has not run; that pull runs it *)
(* once, and no later pull runs it again.                                  *)
C16_GeneratedOnce ==
    /\ stage \in {"Hashmove", "PrepareCaptures"}
          => /\ gens = 0
             /\ captures = <<>> /\ quiets = <<>> /\ underpromotions = <<>>
             /\ Len(out) = (IF stage = "PrepareCaptures" /\ hashmove # NoMove
                            THEN 1 ELSE 0)
             /\ nones = 0
    /\ stage \notin {"Hashmove", "PrepareCaptures"} => gens = 1

\* a stream drained after a hash move, a capture, a quiet move and an
\* underpromotion, with one generation pass
C16_Witness ==
    /\ Drained
    /\ gens = 1
    /\ hashmove # NoMove
    /\ {"hashmove", "captures", "quiets", "underpromotions"} \subseteq Range(src)

----------------------------------------------------------------------------
\* the stages in the order the enum declares them
StageOrder ==
    <<"Hashmove", "PrepareCaptures", "Captures", "Quiets", "Underpromotions">>

StageRank(st) == CHOOSE i \in DOMAIN StageOrder : StageOrder[i] = st

(* C17: the stage only moves forward through Hashmove, PrepareCaptures,    *)
(* Captures, Quiets, Underpromotions: before the first pull it is Hashmove *)
(* iff a hash move was supplied and PrepareCaptures otherwise, no pull     *)
(* takes it to an earlier stage, and a pull made in Hashmove or in         *)
(* PrepareCaptures leaves that stage.                                      *)
C17_StageForward ==
    /\ [](~Pulled => stage = (IF hashmove # NoMove THEN "Hashmove"
                              ELSE "PrepareCaptures"))
    /\ [][ /\ StageRank(stage') >= StageRank(stage)
           /\ stage \in {"Hashmove", "PrepareCaptures"} => stage' # stage
           /\ stage = "Hashmove" => stage' = "PrepareCaptures" ]_vars

\* a stream that began with the hash move and has reached the Quiets stage
\* by way of the capture list
C17_Witness ==
    /\ stage = "Quiets"
    /\ nones = 0
    /\ hashmove # NoMove
    /\ {"hashmove", "captures", "quiets"} \subseteq Range(src)

----------------------------------------------------------------------------
Reverse(seq) == [i \in 1..Len(seq) |-> seq[Len(seq) + 1 - i]]

\* the moves returned by the handler `by`, in the order returned, from the
\* i-th pull on
RECURSIVE YieldedBy(_, _)
YieldedBy(by, i) ==
    IF i > Len(out) THEN <<>>
    ELSE (IF src[i] = by THEN <<out[i]>> ELSE <<>>) \o YieldedBy(by, i + 1)

\* the minor promotions the quiet drain defers, in the order it meets them:
\* the groups qs[n], qs[n - 1], ..., each in iteration order
RECURSIVE DeferredFrom(_, _)
DeferredFrom(qs, n) ==
    IF n = 0 THEN <<>>
    ELSE SelectSeq(IterAll(qs[n]),
                   LAMBDA m : IsUnderpromotion(m) /\ ~SkipsHashmove(hashmove, m))
         \o DeferredFrom(qs, n - 1)

\* the group as the listener leaves it after the killer test (lines 56-64)
AfterKiller(g) ==
    IF killer.from = g.from /\ killer.to \in g.to /\ killer.promotion = None
    THEN [g EXCEPT !.to = @ \ {killer.to}] ELSE g

\* the minor promotions the capture pass defers, from the i-th group on
RECURSIVE DeferredCaptures(_)
DeferredCaptures(i) ==
    IF i > Len(board.groups) THEN <<>>
    ELSE SelectSeq(IterAll(IntoIter([AfterKiller(board.groups[i])
                                        EXCEPT !.to = @ \cap board.theirs])),
                   LAMBDA m : IsUnderpromotion(m) /\ ~SkipsHashmove(hashmove, m))
         \o DeferredCaptures(i + 1)

\* the quiet groups as the generation pass pushes them (lines 66-68)
QuietGroups ==
    [i \in DOMAIN board.groups |->
        IntoIter([AfterKiller(board.groups[i]) EXCEPT !.to = @ \ board.theirs])]

\* every push to the underpromotion list, in order: those of the capture
\* pass, then those of the quiet drain
Discovered ==
    DeferredCaptures(1) \o DeferredFrom(QuietGroups, Len(QuietGroups))

(* C18: the Underpromotions stage returns the deferred minor promotions in *)
(* reverse discovery order: what it has returned, reversed, and what the   *)
(* list still holds make up the pushes of the capture pass followed by     *)
(* those of the quiet drain, so nothing is pushed in that stage; before    *)
(* that stage the list only holds the first pushes and none is returned.   *)
C18_ReverseDiscovery ==
    LET U == YieldedBy("underpromotions", 1)
    IN  /\ stage = "Underpromotions" => underpromotions \o Reverse(U) = Discovered
        /\ stage # "Underpromotions"
              => /\ U = <<>>
                 /\ underpromotions # <<>>
                       => /\ Len(underpromotions) <= Len(Discovered)
                          /\ underpromotions
                                = SubSeq(Discovered, 1, Len(underpromotions))

\* a drained stream whose underpromotions were pushed by the capture pass
\* and by the quiet drain: those of the quiet drain came out first
C18_Witness ==
    LET U == YieldedBy("underpromotions", 1)
    IN  /\ Drained
        /\ Len(U) >= 6
        /\ U[1].to \notin board.theirs
        /\ U[Len(U)].to \in board.theirs
        /\ U = Reverse(Discovered)

----------------------------------------------------------------------------
\* the killer hint is a legal promoting move and not the hash move
PromotingKiller ==
    /\ killer_hint.promotion \in PromotionSet
    /\ Some(killer_hint) # hashmove
    /\ IsLegal(board, killer_hint)

(* C19: a killer hint that is a legal promoting move, other than the hash  *)
(* move, is yielded exactly twice by the drained stream: once by the       *)
(* capture list with score 0, and once by its ordinary pool: the capture   *)
(* list at its capture score, the quiet groups, or the underpromotions.    *)
C19_PromotingKillerTwice ==
    (Drained /\ PromotingKiller)
        => /\ Count(out, killer_hint) = 2
           /\ Cardinality({j \in DOMAIN scores :
                              CaptureOut[j] = killer_hint /\ scores[j] = 0}) = 1
           /\ \E i \in DOMAIN out :
                 /\ out[i] = killer_hint
                 /\ src[i] = (IF IsUnderpromotion(killer_hint) THEN "underpromotions"
                              ELSE IF killer_hint.to \in board.theirs THEN "captures"
                              ELSE "quiets")
                 /\ src[i] = "captures"
                       => \E j \in DOMAIN scores :
                             /\ CaptureOut[j] = killer_hint
                             /\ scores[j] = ScoreOf(board, killer_hint)
                             /\ scores[j] # 0

\* a drained stream whose killer was a legal minor promotion, after a hash
\* move and other captures
C19_Witness ==
    /\ Drained
    /\ PromotingKiller
    /\ IsUnderpromotion(killer_hint)
    /\ hashmove # NoMove
    /\ Len(scores) >= 3
    /\ Count(out, killer_hint) = 2

----------------------------------------------------------------------------
\* the number of entries a state of the ordering holds in its pools
RECURSIVE QuietsLeft(_, _)
QuietsLeft(qs, n) ==
    IF n = 0 THEN 0 ELSE Len(IterAll(qs[n])) + QuietsLeft(qs, n - 1)

PoolSize(s) ==
    Len(s.captures) + QuietsLeft(s.quiets, Len(s.quiets)) + Len(s.underpromotions)

\* what bounds the pulls still to return a move: the pending hash move and
\* the entries in the pools, those of the generation pass while it is
\* still to run
Measure ==
    (IF stage = "Hashmove" THEN 1 ELSE 0)
    + PoolSize(IF stage \in {"Hashmove", "PrepareCaptures"}
               THEN GenerateMoves(board, Self, 1) ELSE Self)

(* C20: the stream is finite and stays ended: every pull returns None or   *)
(* one move, and the moves returned so far together with the pending hash  *)
(* move and the pool entries left never exceed (legal moves + 2), so       *)
(* repeated pulls reach a pull that returns None; every pull after a None  *)
(* returns None again and leaves the ordering and what it has yielded      *)
(* unchanged.                                                              *)
C20_EndsAndStaysEnded ==
    /\ [](Len(out) + Measure <= Cardinality(LegalMoves(board)) + 2)
    /\ [][ /\ \/ nones' = nones + 1 /\ out' = out
              \/ nones' = nones /\ Len(out') = Len(out) + 1
           /\ nones > 0
                 => /\ nones' = nones + 1
                    /\ stage' = stage /\ hashmove' = hashmove /\ killer' = killer
                    /\ captures' = captures /\ quiets' = quiets
                    /\ underpromotions' = underpromotions
                    /\ out' = out /\ src' = src /\ scores' = scores ]_vars

\* a stream that returned a hash move, captures, quiet moves and
\* underpromotions, then None, and was pulled again
C20_Witness ==
    /\ nones >= 2
    /\ Len(out) >= 8
    /\ stage = "Underpromotions"
    /\ captures = <<>> /\ quiets = <<>> /\ underpromotions = <<>>

====
